---- MODULE Spec2Model ----
(***************************************************************************)
(* Bulk-operation engine of linear-cli (src/src/main.ts, lines 42-302):    *)
(* the identifier collector, the bounded-concurrency executor, the         *)
(* progress reporter, and the command handlers that drive them.            *)
(*                                                                         *)
(* Strings that the code splits, joins or searches are sequences of        *)
(* one-character strings; an optional value (T | undefined) is a set with  *)
(* at most one element.                                                    *)
(***************************************************************************)
EXTENDS Integers, Sequences, FiniteSets

(* ------------------------------ bounds --------------------------------- *)

\* longest ids list enumerated with every outcome kind and every concurrency
MaxIds == 3
\* largest explicit concurrency option
MaxConcurrency == 3

\* longest text given to parseIds on its own
MaxParseLen == 4
\* longest --bulk list, file content and stdin content given to collectBulkIds
MaxInline == 2
MaxFileLen == 2
MaxStdinLen == 2
\* number of successive calls of executeBulkOperations
MaxCalls == 2
\* longest list of results in a summary given to printBulkSummary on its own
MaxPrintResults == 3
\* most iterations of the partition loop that are followed
MaxBatches == 6
\* the concurrency options below 1 go down to -MaxBelow
MaxBelow == 2

(* ------------------------- program constants --------------------------- *)

\* const { concurrency = 5 } = options
DefaultConcurrency == 5

(* ------------------------------ helpers -------------------------------- *)

Min(a, b) == IF a < b THEN a ELSE b

Range(s) == { s[k] : k \in 1..Len(s) }

\* all sequences over S of length at most n
SeqsUpTo(S, n) == UNION { [1..k -> S] : k \in 0..n }

\* slice(from, count): the batch size given where the end index belongs
SliceCountAsEnd(s, from, to) == SubSeq(s, from + 1, Min(to - from, Len(s)))

\* slice(from) with the end index forgotten
SliceToEnd(s, from, to) == SubSeq(s, from + 1, Len(s))

\* the index slice works with: a negative index counts from the end, and
\* the result is clamped to 0..n
RelativeIndex(k, n) == IF k < 0 THEN (IF n + k < 0 THEN 0 ELSE n + k) ELSE Min(k, n)

\* Array.prototype.slice(from, to): empty when from is not before to
Slice(s, from, to) ==
  IF RelativeIndex(from, Len(s)) < RelativeIndex(to, Len(s))
  THEN SubSeq(s, RelativeIndex(from, Len(s)) + 1, RelativeIndex(to, Len(s)))
  ELSE <<>>

\* results.filter((r) => r.success).length
RECURSIVE CountSuccess(_)
CountSuccess(rs) ==
  IF rs = <<>> THEN 0
  ELSE (IF Head(rs).success THEN 1 ELSE 0) + CountSuccess(Tail(rs))

\* [...a, ...b] for a sequence of option slots that are all filled
RECURSIVE Unwrap(_)
Unwrap(slots) ==
  IF slots = <<>> THEN <<>>
  ELSE <<CHOOSE r \in Head(slots) : TRUE>> \o Unwrap(Tail(slots))

(* ------------------- the caller-supplied operation --------------------- *)

\* identifiers the executor is run on
IdPool == { <<"A">>, <<"B">> }

\* six distinct identifiers: one more than the default concurrency
LongIds == << <<"A">>, <<"B">>, <<"C">>, <<"D">>, <<"E">>, <<"F">> >>

\* the canonical id an operation resolves its input to
ResolveId(id) == <<"#">> \o id

\* values an operation can throw: Error objects (text is their message) and
\* a thrown primitive string (text is the string itself)
Failures ==
  { [kind |-> "Error", text |-> "not found"],
    [kind |-> "Error", text |-> ""],
    [kind |-> "string", text |-> "boom"] }

\* String(error): Error.prototype.toString for an Error, the string itself
\* for a string primitive
StringOf(f) ==
  IF f.kind = "Error"
  THEN CASE f.text = "" -> "Error"
         [] f.text = "not found" -> "Error: not found"
  ELSE f.text

\* the operation's successful return
OpSucceeded(id) ==
  [id |-> ResolveId(id), name |-> {id}, success |-> TRUE, error |-> {}]

\* the operation's "not found" return
OpNotFound(id) ==
  [id |-> id, name |-> {}, success |-> FALSE, error |-> {"Issue not found"}]

\* the operation's "delete failed" return: the item was found, so the
\* result has its name
OpDeleteFailed(id) ==
  [id |-> ResolveId(id), name |-> {id}, success |-> FALSE,
   error |-> {"Delete operation failed"}]

\* the kinds of outcome an operation has
AllKinds == {"ok", "notFound", "throwError", "throwEmpty", "throwString"}
PlainKinds == {"ok", "throwError"}

\* the outcome of kind k of the operation invoked with id
Outcome(k, id) ==
  CASE k = "ok" -> [kind |-> "return", result |-> OpSucceeded(id)]
    [] k = "notFound" -> [kind |-> "return", result |-> OpNotFound(id)]
    [] k = "throwError" ->
         [kind |-> "throw", failure |-> [kind |-> "Error", text |-> "not found"]]
    [] k = "throwEmpty" ->
         [kind |-> "throw", failure |-> [kind |-> "Error", text |-> ""]]
    [] k = "throwString" ->
         [kind |-> "throw", failure |-> [kind |-> "string", text |-> "boom"]]

(* ------------------------------- state --------------------------------- *)

VARIABLES
  pc,          \* position of the running function
  ids,         \* executeBulkOperations argument: the ids to process
  options,     \* argument: showProgress, colorEnabled, concurrency (optional)
  isTerminal,  \* Deno.stdout.isTerminal()
  opKinds,     \* the outcome kinds the supplied operation can produce
  i,           \* index of the partition loop
  batches,     \* const batches: string[][]
  b,           \* number of batches the for-of loop has entered
  launched,    \* closures of the current batch that batch.map has started
  wrapped,     \* the promises batch.map returned: {} pending, {r} resolved
  results,     \* const results: T[]
  completed,   \* let completed
  stdout,      \* what Deno.stdout.writeSync has written
  calls,       \* every invocation of operation: id, phase, outcome
  reordered,   \* some operation settled before one launched earlier
  summary,     \* the returned summary: {} until the function returns
  earlier,     \* the calls that returned before this one: log and summary
  sources,     \* collectBulkIds argument: bulk, bulkFile, bulkStdin
  file,        \* what Deno.readTextFile finds at the bulkFile path
  stdin,       \* chunks Deno.stdin.readable has still to deliver
  chunks,      \* const chunks: Uint8Array[]
  allIds,      \* const allIds: string[]
  collected,   \* what collectBulkIds returned: {} until it returns
  thrown,      \* the error collectBulkIds threw: {} if none
  input,       \* parseIds argument
  parsed,      \* what parseIds returned: {} until it returns
  cli,         \* the command's flags: confirm, colorEnabled
  console,     \* the lines console.log and console.error have written
  exitCode,    \* {} while the command runs, then the status it ended with
  rejection,   \* the error the command handler rejected with: {} if none
  helper,      \* readContentFromStdin: its stdin, its read, its timer, its result
  archive      \* archiveOperation: what the server answers, the requests
               \* issued, the resolved id, the name, the outcome

execVars == <<ids, options, isTerminal, opKinds, i, batches, b, launched,
              wrapped, results, completed, stdout, calls, reordered, summary,
              earlier>>

collectVars == <<sources, file, stdin, chunks, allIds, collected, thrown>>

parseVars == <<input, parsed>>

handlerVars == <<cli, console, exitCode, rejection>>

contentVars == <<helper>>

archiveVars == <<archive>>

vars == <<pc, execVars, collectVars, parseVars, handlerVars, contentVars,
          archiveVars>>

(* ----------------------- executeBulkOperations ------------------------- *)

\* const { showProgress = true, colorEnabled = true, concurrency = 5 } = options
Concurrency(opts) ==
  IF opts.concurrency = {} THEN DefaultConcurrency
  ELSE CHOOSE c \in opts.concurrency : TRUE

\* Math.round((completed / total) * 100)
Percent(done, total) == (200 * done + total) \div (2 * total)

\* the status line updateProgress composes
StatusLine(done, total, rs, color) ==
  [kind |-> "status", color |-> color, completed |-> done, total |-> total,
   percent |-> Percent(done, total), succeeded |-> CountSuccess(rs),
   failed |-> done - CountSuccess(rs)]

\* a reporter that does not ask whether standard output is a terminal
UpdateProgressAnywhere(out, opts, tty, done, total, rs) ==
  IF opts.showProgress
  THEN Append(out, StatusLine(done, total, rs, opts.colorEnabled))
  ELSE out

\* updateProgress(): writes only if showProgress && Deno.stdout.isTerminal()
UpdateProgress(out, opts, tty, done, total, rs) ==
  IF opts.showProgress /\ tty
  THEN Append(out, StatusLine(done, total, rs, opts.colorEnabled))
  ELSE out

\* String(error) for every failure
ErrorTextStringified(f) == StringOf(f)

\* error instanceof Error ? error.message : String(error)
ErrorText(f) == IF f.kind = "Error" THEN f.text ELSE StringOf(f)

\* a synthesized result that leaves the error out
CaughtResultNoError(id, f) ==
  [id |-> id, name |-> {}, success |-> FALSE, error |-> {}]

\* the result the catch block synthesizes
CaughtResult(id, f) ==
  [id |-> id, name |-> {}, success |-> FALSE, error |-> {ErrorText(f)}]

\* the id the j-th closure of the current batch was given
BatchId(j) == batches[b][j]

\* index in calls of the j-th invocation of the current batch
CallIndex(j) == Len(calls) - launched + j

\* a call that goes on with the accumulator and the counter the call before
\* it left behind
CallCarryOver ==
  /\ pc = "call"
  /\ pc' = "partition"
  /\ i' = 0
  /\ batches' = <<>>
  /\ UNCHANGED <<collectVars, parseVars, archiveVars, contentVars, handlerVars, earlier, ids, options, isTerminal, opKinds, b, launched, wrapped,
                 results, completed, stdout, calls, reordered, summary>>

\* lines 179-181: results = [], completed = 0, total = ids.length
Call ==
  /\ pc = "call"
  /\ pc' = "partition"
  /\ results' = <<>>
  /\ completed' = 0
  /\ i' = 0
  /\ batches' = <<>>
  /\ UNCHANGED <<collectVars, parseVars, archiveVars, contentVars, handlerVars, earlier, ids, options, isTerminal, opKinds, b, launched, wrapped,
                 stdout, calls, reordered, summary>>

\* an iteration that advances by at least one whatever concurrency is
PartitionStepClamped ==
  /\ pc = "partition"
  /\ i < Len(ids)
  /\ Len(batches) < MaxBatches
  /\ batches' = Append(batches, Slice(ids, i, i + Concurrency(options)))
  /\ i' = i + (IF Concurrency(options) < 1 THEN 1 ELSE Concurrency(options))
  /\ UNCHANGED <<collectVars, parseVars, archiveVars, contentVars, handlerVars, earlier, pc, ids, options, isTerminal, opKinds, b, launched, wrapped,
                 results, completed, stdout, calls, reordered, summary>>

\* lines 185-187: one iteration of the partition loop (followed for at most
\* MaxBatches iterations)
PartitionStep ==
  /\ pc = "partition"
  /\ i < Len(ids)
  /\ Len(batches) < MaxBatches
  /\ batches' = Append(batches, Slice(ids, i, i + Concurrency(options)))
  /\ i' = i + Concurrency(options)
  /\ UNCHANGED <<collectVars, parseVars, archiveVars, contentVars, handlerVars, earlier, pc, ids, options, isTerminal, opKinds, b, launched, wrapped,
                 results, completed, stdout, calls, reordered, summary>>

\* line 185: the loop condition fails
PartitionDone ==
  /\ pc = "partition"
  /\ ~(i < Len(ids))
  /\ pc' = "loop"
  /\ b' = 0
  /\ UNCHANGED <<collectVars, parseVars, archiveVars, contentVars, handlerVars, earlier, ids, options, isTerminal, opKinds, i, batches, launched,
                 wrapped, results, completed, stdout, calls, reordered, summary>>

\* line 203: the for-of loop takes the next batch
NextBatch ==
  /\ pc = "loop"
  /\ b < Len(batches)
  /\ b' = b + 1
  /\ launched' = 0
  /\ wrapped' = <<>>
  /\ pc' = "map"
  /\ UNCHANGED <<collectVars, parseVars, archiveVars, contentVars, handlerVars, earlier, ids, options, isTerminal, opKinds, i, batches, results,
                 completed, stdout, calls, reordered, summary>>

\* lines 205-207: batch.map starts the next closure, which invokes
\* operation(id) and suspends at its await
Launch ==
  /\ pc = "map"
  /\ launched < Len(batches[b])
  /\ launched' = launched + 1
  /\ calls' = Append(calls, [id |-> BatchId(launched + 1), phase |-> "inflight",
                             outcome |-> [kind |-> "pending"]])
  /\ wrapped' = Append(wrapped, {})
  /\ UNCHANGED <<collectVars, parseVars, archiveVars, contentVars, handlerVars, earlier, pc, ids, options, isTerminal, opKinds, i, batches, b, results,
                 completed, stdout, reordered, summary>>

\* line 204: map has returned; Promise.all awaits the closures
AwaitAll ==
  /\ pc = "map"
  /\ launched = Len(batches[b])
  /\ pc' = "await"
  /\ UNCHANGED <<collectVars, parseVars, archiveVars, contentVars, handlerVars, earlier, ids, options, isTerminal, opKinds, i, batches, b, launched,
                 wrapped, results, completed, stdout, calls, reordered, summary>>

\* the first pending slot of the current batch
FirstPending == CHOOSE e \in 1..Len(wrapped) :
                  wrapped[e] = {} /\ \A d \in 1..(e - 1) : wrapped[d] # {}

\* a closure that stores its value in completion order
ResumeInCompletionOrder(j, o, r) ==
  /\ completed' = completed + 1
  /\ stdout' = UpdateProgress(stdout, options, isTerminal, completed + 1,
                              Len(ids), results)
  /\ wrapped' = [wrapped EXCEPT ![FirstPending] = {r}]
  /\ calls' = [calls EXCEPT ![CallIndex(j)] =
                 [id |-> @.id, phase |-> "settled", outcome |-> o]]
  /\ reordered' = (reordered \/ \E e \in 1..(j - 1) : wrapped[e] = {})
  /\ UNCHANGED <<collectVars, parseVars, archiveVars, contentVars, handlerVars, earlier, pc, ids, options, isTerminal, opKinds, i, batches, b,
                 launched, results, summary>>

\* a closure whose catch block forgets to count and report the item
ResumeCountsReturnsOnly(j, o, r) ==
  /\ completed' = IF o.kind = "return" THEN completed + 1 ELSE completed
  /\ stdout' = IF o.kind = "return"
               THEN UpdateProgress(stdout, options, isTerminal, completed + 1,
                                   Len(ids), results)
               ELSE stdout
  /\ wrapped' = [wrapped EXCEPT ![j] = {r}]
  /\ calls' = [calls EXCEPT ![CallIndex(j)] =
                 [id |-> @.id, phase |-> "settled", outcome |-> o]]
  /\ reordered' = (reordered \/ \E e \in 1..(j - 1) : wrapped[e] = {})
  /\ UNCHANGED <<collectVars, parseVars, archiveVars, contentVars, handlerVars, earlier, pc, ids, options, isTerminal, opKinds, i, batches, b,
                 launched, results, summary>>

\* the operation of the j-th closure settles with outcome o and the closure
\* resumes: it counts the item, reports progress and returns value r. The
\* resumption is the microtask the settlement queues, so the two are one
\* step; a closure never resumes before batch.map has returned.
Resume(j, o, r) ==
  /\ completed' = completed + 1
  /\ stdout' = UpdateProgress(stdout, options, isTerminal, completed + 1,
                              Len(ids), results)
  /\ wrapped' = [wrapped EXCEPT ![j] = {r}]
  /\ calls' = [calls EXCEPT ![CallIndex(j)] =
                 [id |-> @.id, phase |-> "settled", outcome |-> o]]
  /\ reordered' = (reordered \/ \E e \in 1..(j - 1) : wrapped[e] = {})
  /\ UNCHANGED <<collectVars, parseVars, archiveVars, contentVars, handlerVars, earlier, pc, ids, options, isTerminal, opKinds, i, batches, b,
                 launched, results, summary>>

\* lines 207-210: an operation resolves; the closure returns its result
SettleResolved ==
  /\ pc = "await"
  /\ \E j \in 1..Len(wrapped) : \E k \in opKinds :
       LET o == Outcome(k, BatchId(j)) IN
       /\ wrapped[j] = {}
       /\ o.kind = "return"
       /\ Resume(j, o, o.result)

\* lines 211-219: an operation throws or rejects; the closure returns a
\* synthesized failed result
SettleRejected ==
  /\ pc = "await"
  /\ \E j \in 1..Len(wrapped) : \E k \in opKinds :
       LET o == Outcome(k, BatchId(j)) IN
       /\ wrapped[j] = {}
       /\ o.kind = "throw"
       /\ Resume(j, o, CaughtResult(BatchId(j), o.failure))

\* the values of the filled slots, in slot order
RECURSIVE Filled(_)
Filled(slots) ==
  IF slots = <<>> THEN <<>>
  ELSE (IF Head(slots) = {} THEN <<>> ELSE <<CHOOSE r \in Head(slots) : TRUE>>)
       \o Filled(Tail(slots))

\* a join that gives up on the remaining batches once a batch had a failure
JoinBatchStopOnFailure ==
  /\ pc = "await"
  /\ \A j \in 1..Len(wrapped) : wrapped[j] # {}
  /\ results' = results \o Unwrap(wrapped)
  /\ pc' = "loop"
  /\ b' = IF \E j \in 1..Len(wrapped) : \E r \in wrapped[j] : ~r.success
          THEN Len(batches) ELSE b
  /\ UNCHANGED <<collectVars, parseVars, archiveVars, contentVars, handlerVars, earlier, ids, options, isTerminal, opKinds, i, batches, launched,
                 wrapped, completed, stdout, calls, reordered, summary>>

\* a join that goes on as soon as one closure of the batch has returned
JoinBatchOnFirst ==
  /\ pc = "await"
  /\ \E j \in 1..Len(wrapped) : wrapped[j] # {}
  /\ results' = results \o Filled(wrapped)
  /\ pc' = "loop"
  /\ UNCHANGED <<collectVars, parseVars, archiveVars, contentVars, handlerVars, earlier, ids, options, isTerminal, opKinds, i, batches, b, launched,
                 wrapped, completed, stdout, calls, reordered, summary>>

\* a join that runs a batch with a failed item once more
JoinBatchRetryFailed ==
  /\ pc = "await"
  /\ \A j \in 1..Len(wrapped) : wrapped[j] # {}
  /\ IF /\ \E j \in 1..Len(wrapped) : \E r \in wrapped[j] : ~r.success
        /\ Len(calls) <= Len(ids)
     THEN /\ pc' = "map"
          /\ launched' = 0
          /\ wrapped' = <<>>
          /\ results' = results
     ELSE /\ pc' = "loop"
          /\ results' = results \o Unwrap(wrapped)
          /\ UNCHANGED <<launched, wrapped>>
  /\ UNCHANGED <<collectVars, parseVars, archiveVars, contentVars, handlerVars, earlier, ids, options, isTerminal, opKinds, i, batches, b,
                 completed, stdout, calls, reordered, summary>>

\* a join whose continuation is lost: the function never goes on
JoinBatchLost ==
  /\ pc = "await"
  /\ \A j \in 1..Len(wrapped) : wrapped[j] # {}
  /\ pc' = "lost"
  /\ UNCHANGED <<collectVars, parseVars, archiveVars, contentVars, handlerVars, earlier, ids, options, isTerminal, opKinds, i, batches, b, launched,
                 wrapped, results, completed, stdout, calls, reordered, summary>>

\* lines 204, 222: Promise.all resolves; results.push(...batchResults)
JoinBatch ==
  /\ pc = "await"
  /\ \A j \in 1..Len(wrapped) : wrapped[j] # {}
  /\ results' = results \o Unwrap(wrapped)
  /\ pc' = "loop"
  /\ UNCHANGED <<collectVars, parseVars, archiveVars, contentVars, handlerVars, earlier, ids, options, isTerminal, opKinds, i, batches, b, launched,
                 wrapped, completed, stdout, calls, reordered, summary>>

\* a clearing sequence written without asking for showProgress or a terminal
ClearProgressUnguarded ==
  /\ pc = "loop"
  /\ b = Len(batches)
  /\ stdout' = Append(stdout, [kind |-> "clear"])
  /\ pc' = "return"
  /\ UNCHANGED <<collectVars, parseVars, archiveVars, contentVars, handlerVars, earlier, ids, options, isTerminal, opKinds, i, batches, b, launched,
                 wrapped, results, completed, calls, reordered, summary>>

\* lines 225-228: the for-of loop is over; clear the progress line
ClearProgress ==
  /\ pc = "loop"
  /\ b = Len(batches)
  /\ stdout' = IF options.showProgress /\ isTerminal
               THEN Append(stdout, [kind |-> "clear"])
               ELSE stdout
  /\ pc' = "return"
  /\ UNCHANGED <<collectVars, parseVars, archiveVars, contentVars, handlerVars, earlier, ids, options, isTerminal, opKinds, i, batches, b, launched,
                 wrapped, results, completed, calls, reordered, summary>>

\* a summary that counts as failed the results with a truthy error
SummarizeByError(total, rs) ==
  [total |-> total, succeeded |-> CountSuccess(rs),
   failed |-> Cardinality({ p \in 1..Len(rs) :
                            rs[p].error # {} /\ rs[p].error # {""} }),
   results |-> rs]

\* lines 230-237: the summary
Summarize(total, rs) ==
  [total |-> total, succeeded |-> CountSuccess(rs),
   failed |-> total - CountSuccess(rs), results |-> rs]

Return ==
  /\ pc = "return"
  /\ summary' = {Summarize(Len(ids), results)}
  /\ pc' = "returned"
  /\ UNCHANGED <<collectVars, parseVars, archiveVars, contentVars, handlerVars, earlier, ids, options, isTerminal, opKinds, i, batches, b, launched,
                 wrapped, results, completed, stdout, calls, reordered>>

(* ------------------------------ parseIds ------------------------------- *)

\* the character U+0000
Nul == "NUL"

\* a comma is no longer a separator
IsSeparatorNoComma(c) == c \in {"\n", "\r", " ", "\t"}

\* the class [\n\r,\s] of the split pattern
IsSeparator(c) == c \in {"\n", "\r", ",", " ", "\t"}

\* the characters String.prototype.trim removes
IsWhiteSpace(c) == c \in {"\n", "\r", " ", "\t"}

\* s without the separators it starts with
RECURSIVE SkipSeparators(_)
SkipSeparators(s) ==
  IF s # <<>> /\ IsSeparator(Head(s)) THEN SkipSeparators(Tail(s)) ELSE s

\* input.split(/[\n\r,\s]+/): the pieces between the runs of separators,
\* cur being the piece read so far; a leading or trailing run leaves an
\* empty piece
RECURSIVE SplitPieces(_, _)
SplitPieces(s, cur) ==
  IF s = <<>> THEN <<cur>>
  ELSE IF IsSeparator(Head(s))
       THEN <<cur>> \o SplitPieces(SkipSeparators(s), <<>>)
       ELSE SplitPieces(Tail(s), Append(cur, Head(s)))

Split(s) == SplitPieces(s, <<>>)

\* id.trim()
RECURSIVE TrimStart(_)
TrimStart(s) ==
  IF s # <<>> /\ IsWhiteSpace(Head(s)) THEN TrimStart(Tail(s)) ELSE s

RECURSIVE TrimEnd(_)
TrimEnd(s) ==
  IF s # <<>> /\ IsWhiteSpace(s[Len(s)])
  THEN TrimEnd(SubSeq(s, 1, Len(s) - 1)) ELSE s

Trim(s) == TrimEnd(TrimStart(s))

\* .filter((id) => id.length > 0)
RECURSIVE NonEmpty(_)
NonEmpty(pieces) ==
  IF pieces = <<>> THEN <<>>
  ELSE (IF Len(Head(pieces)) > 0 THEN <<Head(pieces)>> ELSE <<>>)
       \o NonEmpty(Tail(pieces))

\* lines 119-124
parseIds(text) ==
  NonEmpty([k \in 1..Len(Split(text)) |-> Trim(Split(text)[k])])

\* parseIds called on input
ParseInput ==
  /\ pc = "parse"
  /\ parsed' = {parseIds(input)}
  /\ pc' = "parsed"
  /\ UNCHANGED <<execVars, collectVars, handlerVars, contentVars, archiveVars, input>>

(* --------------------------- collectBulkIds ---------------------------- *)

\* "File not found: "
FileNotFoundPrefix ==
  <<"F", "i", "l", "e", " ", "n", "o", "t", " ", "f", "o", "u", "n", "d", ":", " ">>

\* new Error(`File not found: ${filePath}`)
FileNotFoundError(path) ==
  [name |-> "Error", message |-> FileNotFoundPrefix \o path]

\* the errors Deno.readTextFile rejects with
DenoNotFound ==
  [name |-> "NotFound", message |-> <<"E", "N", "O", "E", "N", "T">>]
DenoPermissionDenied ==
  [name |-> "PermissionDenied", message |-> <<"E", "A", "C", "C", "E", "S">>]

\* TextDecoder.decode of one byte below 128
CharOf(byte) ==
  CASE byte = 0 -> Nul
    [] byte = 10 -> "\n"
    [] byte = 32 -> " "
    [] byte = 44 -> ","
    [] byte = 65 -> "A"
    [] byte = 66 -> "B"

\* decoder.decode(bytes)
Decode(bytes) == [k \in 1..Len(bytes) |-> CharOf(bytes[k])]

\* the element new Uint8Array(list) stores for a list element that is itself
\* a Uint8Array: ToNumber of its "b1,b2,..." string form, which is the byte
\* for one byte, 0 for none, and NaN (stored as 0) for more
ElementOf(chunk) == IF Len(chunk) = 1 THEN chunk[1] ELSE 0

\* new Uint8Array(chunks.flat()): flat() leaves the Uint8Array elements of
\* chunks as they are (it flattens arrays only), so every chunk becomes one
\* element
FlatBytes(cs) == [k \in 1..Len(cs) |-> ElementOf(cs[k])]

\* [...new Set(allIds)]: first occurrences, in order
RECURSIVE Dedupe(_)
Dedupe(s) ==
  IF s = <<>> THEN <<>>
  ELSE LET front == Dedupe(SubSeq(s, 1, Len(s) - 1)) IN
       IF s[Len(s)] \in Range(front) THEN front ELSE Append(front, s[Len(s)])

\* a JavaScript value used as a condition: an optional string is truthy when
\* it is there and not empty
Truthy(opt) == opt # {} /\ opt # {<<>>}

\* the value of an option that is there
Value(opt) == CHOOSE v \in opt : TRUE

\* lines 137-142: the ids of --bulk
CollectBulk ==
  /\ pc = "collect"
  /\ allIds' = IF Truthy(sources.bulk) THEN Value(sources.bulk) ELSE <<>>
  /\ pc' = "collect_file"
  /\ UNCHANGED <<execVars, parseVars, archiveVars, contentVars, handlerVars, sources, file, stdin, chunks, collected,
                 thrown>>

\* line 145: no --bulk-file
SkipFile ==
  /\ pc = "collect_file"
  /\ ~Truthy(sources.bulkFile)
  /\ pc' = "collect_stdin"
  /\ UNCHANGED <<execVars, parseVars, archiveVars, contentVars, handlerVars, collectVars>>

\* lines 105-106, 146-147: the file is read and parsed
ReadFile ==
  /\ pc = "collect_file"
  /\ Truthy(sources.bulkFile)
  /\ file.kind = "text"
  /\ allIds' = allIds \o parseIds(file.content)
  /\ pc' = "collect_stdin"
  /\ UNCHANGED <<execVars, parseVars, archiveVars, contentVars, handlerVars, sources, file, stdin, chunks, collected,
                 thrown>>

\* the path left out of the message
ReadFailureWithoutPath(e, path) ==
  IF e.name = "NotFound"
  THEN [name |-> "Error", message |-> FileNotFoundPrefix]
  ELSE e

\* the error readIdsFromFile throws for a read that failed with error e
ReadFailure(e, path) ==
  IF e.name = "NotFound" THEN FileNotFoundError(path) ELSE e

\* lines 107-112: the read fails; collectBulkIds rejects with the error
\* readIdsFromFile throws
ReadFileFails ==
  /\ pc = "collect_file"
  /\ Truthy(sources.bulkFile)
  /\ file.kind = "error"
  /\ thrown' = {ReadFailure(file.error, Value(sources.bulkFile))}
  /\ pc' = "threw"
  /\ UNCHANGED <<execVars, parseVars, archiveVars, contentVars, handlerVars, sources, file, stdin, chunks, allIds,
                 collected>>

\* line 151: no --bulk-stdin
SkipStdin ==
  /\ pc = "collect_stdin"
  /\ ~sources.bulkStdin
  /\ pc' = "dedupe"
  /\ UNCHANGED <<execVars, parseVars, archiveVars, contentVars, handlerVars, collectVars>>

\* lines 88-89, 152: readIdsFromStdin starts
StartStdin ==
  /\ pc = "collect_stdin"
  /\ sources.bulkStdin
  /\ chunks' = <<>>
  /\ pc' = "read_stdin"
  /\ UNCHANGED <<execVars, parseVars, archiveVars, contentVars, handlerVars, sources, file, stdin, allIds, collected,
                 thrown>>

\* lines 91-93: the stream delivers a chunk
ReadChunk ==
  /\ pc = "read_stdin"
  /\ stdin # <<>>
  /\ chunks' = Append(chunks, Head(stdin))
  /\ stdin' = Tail(stdin)
  /\ UNCHANGED <<pc, execVars, parseVars, archiveVars, contentVars, handlerVars, sources, file, allIds, collected,
                 thrown>>

\* lines 95-96, 153: end of stream; the chunks are decoded and parsed
EndStdin ==
  /\ pc = "read_stdin"
  /\ stdin = <<>>
  /\ allIds' = allIds \o parseIds(Decode(FlatBytes(chunks)))
  /\ pc' = "dedupe"
  /\ UNCHANGED <<execVars, parseVars, archiveVars, contentVars, handlerVars, sources, file, stdin, chunks, collected,
                 thrown>>

\* lines 156-157
ReturnIds ==
  /\ pc = "dedupe"
  /\ collected' = {Dedupe(allIds)}
  /\ pc' = "collected"
  /\ UNCHANGED <<execVars, parseVars, archiveVars, contentVars, handlerVars, sources, file, stdin, chunks, allIds,
                 thrown>>

(* ------------------------- states before a call ------------------------ *)

\* executeBulkOperations has not been called
ExecIdle ==
  /\ i = 0
  /\ batches = <<>>
  /\ b = 0
  /\ launched = 0
  /\ wrapped = <<>>
  /\ results = <<>>
  /\ completed = 0
  /\ stdout = <<>>
  /\ calls = <<>>
  /\ reordered = FALSE
  /\ summary = {}
  /\ earlier = <<>>

\* collectBulkIds has not been called
CollectIdle ==
  /\ chunks = <<>>
  /\ allIds = <<>>
  /\ collected = {}
  /\ thrown = {}

\* no command is running
HandlerIdle ==
  /\ cli = [confirm |-> FALSE, colorEnabled |-> TRUE]
  /\ console = <<>>
  /\ exitCode = {}
  /\ rejection = {}

\* archiveOperation before it is called, against a server that knows nothing
ArchiveIdle ==
  [isUuid |-> FALSE, slug |-> "none", name |-> "none", details |-> "null",
   mutation |-> "error", requests |-> <<>>, resolvedId |-> {},
   displayName |-> <<>>, outcome |-> {}]

\* readContentFromStdin and archiveOperation have not been called
HelperIdle ==
  /\ archive = ArchiveIdle
  /\ helper = [stdinIsTerminal |-> TRUE, streamEnds |-> TRUE, read |-> "idle",
            timer |-> "unset", result |-> {}]

NoSources == [bulk |-> {}, bulkFile |-> {}, bulkStdin |-> FALSE]
NoFile == [kind |-> "error", error |-> DenoNotFound]

(* --------------------- the executor on its own ------------------------- *)

\* the options object a caller passes
ExecOptions ==
  { [showProgress |-> TRUE, colorEnabled |-> TRUE, concurrency |-> c] :
      c \in {{}} \cup { {n} : n \in 1..MaxConcurrency } }

\* options objects that switch the progress line or the glyphs off
DisplayOptions ==
  { [showProgress |-> s, colorEnabled |-> c, concurrency |-> n] :
      s \in BOOLEAN, c \in BOOLEAN, n \in {{}, {2}} } \ ExecOptions

InitExec ==
  /\ pc = "call"
  /\ \/ /\ ids \in SeqsUpTo(IdPool, MaxIds)
        /\ options \in ExecOptions
        /\ opKinds \in {AllKinds, PlainKinds}
     \/ /\ ids = LongIds
        /\ options \in ExecOptions
        /\ opKinds = PlainKinds
     \/ /\ ids \in SeqsUpTo(IdPool, MaxIds)
        /\ options \in DisplayOptions
        /\ opKinds = PlainKinds
  /\ isTerminal \in BOOLEAN
  /\ ExecIdle
  /\ CollectIdle
  /\ HelperIdle
  /\ HandlerIdle
  /\ sources = NoSources
  /\ file = NoFile
  /\ stdin = <<>>
  /\ input = <<>>
  /\ parsed = {}

NextExec ==
  \/ Call
  \/ PartitionStep
  \/ PartitionDone
  \/ NextBatch
  \/ Launch
  \/ AwaitAll
  \/ SettleResolved
  \/ SettleRejected
  \/ JoinBatch
  \/ ClearProgress
  \/ Return

SpecExec == InitExec /\ [][NextExec]_vars

\* the steps of the function's own code, which the event loop runs whenever
\* they are ready
ProgramStep ==
  \/ Call
  \/ PartitionStep
  \/ PartitionDone
  \/ NextBatch
  \/ Launch
  \/ AwaitAll
  \/ JoinBatch
  \/ ClearProgress
  \/ Return

\* every invoked operation eventually settles
OperationSettles == SettleResolved \/ SettleRejected

\* the runs whose completion is checked: on a terminal, with an operation
\* that succeeds or throws
InitExecFair ==
  /\ InitExec
  /\ ids \in SeqsUpTo(IdPool, MaxIds)
  /\ options \in ExecOptions
  /\ opKinds = PlainKinds
  /\ isTerminal

SpecExecFair ==
  /\ InitExecFair
  /\ [][NextExec]_vars
  /\ WF_vars(ProgramStep)
  /\ WF_vars(OperationSettles)

(* ------------- the executor with a concurrency below 1 ----------------- *)

\* options objects whose concurrency is 0 or negative
StuckOptions ==
  { [showProgress |-> TRUE, colorEnabled |-> TRUE, concurrency |-> {-n}] :
      n \in 0..MaxBelow }

InitStuck ==
  /\ pc = "call"
  /\ ids \in SeqsUpTo(IdPool, MaxIds) \ {<<>>}
  /\ options \in StuckOptions
  /\ opKinds = AllKinds
  /\ isTerminal \in BOOLEAN
  /\ ExecIdle
  /\ CollectIdle
  /\ HelperIdle
  /\ HandlerIdle
  /\ sources = NoSources
  /\ file = NoFile
  /\ stdin = <<>>
  /\ input = <<>>
  /\ parsed = {}

\* the steps such a call takes: it never leaves the partition loop
NextStuck ==
  \/ Call
  \/ PartitionStep

SpecStuck == InitStuck /\ [][NextStuck]_vars

(* ------------------ the executor called more than once ----------------- *)

\* the operation is a function of its id: every invocation with one id, in
\* this call and in the earlier ones, that has settled has the same outcome
SameOutcomePerId ==
  LET logs == <<calls>> \o [k \in 1..Len(earlier) |-> earlier[k].calls] IN
  \A k, l \in 1..Len(logs) :
    \A p \in 1..Len(logs[k]) : \A q \in 1..Len(logs[l]) :
      /\ logs[k][p].phase = "settled"
      /\ logs[l][q].phase = "settled"
      /\ logs[k][p].id = logs[l][q].id
      => logs[k][p].outcome = logs[l][q].outcome

\* the caller calls executeBulkOperations again with the same ids, operation
\* and options, after the call before has returned
CallAgain ==
  /\ pc = "returned"
  /\ Len(earlier) + 1 < MaxCalls
  /\ earlier' = Append(earlier, [calls |-> calls, summary |-> summary,
                                 reordered |-> reordered])
  /\ calls' = <<>>
  /\ reordered' = FALSE
  /\ summary' = {}
  /\ pc' = "call"
  /\ UNCHANGED <<collectVars, parseVars, archiveVars, contentVars, handlerVars, ids, options, isTerminal,
                 opKinds, i, batches, b, launched, wrapped, results, completed,
                 stdout>>

InitRerun ==
  /\ InitExec
  /\ ids \in SeqsUpTo(IdPool, MaxIds)
  /\ options \in ExecOptions
  /\ opKinds = PlainKinds
  /\ ~isTerminal

NextRerun ==
  \/ NextExec /\ SameOutcomePerId'
  \/ CallAgain

SpecRerun == InitRerun /\ [][NextRerun]_vars

(* ----------------------- parseIds on its own --------------------------- *)

\* the characters of the texts parsed
ParseChars == {"A", "B", ",", " ", "\n", "\r", "\t"}

\* "X-1\nX-2, X-3\n\nX-1"
ScenarioText ==
  <<"X", "-", "1", "\n", "X", "-", "2", ",", " ", "X", "-", "3", "\n", "\n",
    "X", "-", "1">>

InitParse ==
  /\ pc = "parse"
  /\ input \in SeqsUpTo(ParseChars, MaxParseLen) \cup {ScenarioText}
  /\ parsed = {}
  /\ ids = <<>>
  /\ options = [showProgress |-> TRUE, colorEnabled |-> TRUE, concurrency |-> {}]
  /\ opKinds = AllKinds
  /\ isTerminal = FALSE
  /\ ExecIdle
  /\ CollectIdle
  /\ HelperIdle
  /\ HandlerIdle
  /\ sources = NoSources
  /\ file = NoFile
  /\ stdin = <<>>

NextParse == ParseInput

SpecParse == InitParse /\ [][NextParse]_vars

(* -------------------- collectBulkIds on its own ------------------------ *)

\* the ids given with --bulk
InlineTokens == { <<"A">>, <<"B">> }

\* the path given with --bulk-file
FilePath == <<"i", "d", "s">>

\* the characters of the file and the bytes of stdin
FileChars == {"A", "B", "\n"}
StdinBytes == {65, 44}

\* the total length of the chunks cs
RECURSIVE TotalLen(_)
TotalLen(cs) == IF cs = <<>> THEN 0 ELSE Len(Head(cs)) + TotalLen(Tail(cs))

\* the ways a stream of at most n bytes arrives in non-empty chunks
Streams(n) ==
  { cs \in SeqsUpTo(SeqsUpTo(StdinBytes, n) \ {<<>>}, n) : TotalLen(cs) <= n }

\* what Deno.readTextFile can find at the path
Files ==
  { [kind |-> "text", content |-> t] : t \in SeqsUpTo(FileChars, MaxFileLen) }
  \cup { [kind |-> "error", error |-> e] : e \in {DenoNotFound, DenoPermissionDenied} }

InitCollect ==
  /\ pc = "collect"
  /\ \/ /\ sources \in
             [bulk : {{}} \cup { {l} : l \in SeqsUpTo(InlineTokens, MaxInline) },
              bulkFile : {{}, {<<>>}, {FilePath}},
              bulkStdin : BOOLEAN]
        /\ file \in Files
        /\ stdin \in Streams(MaxStdinLen)
        /\ ~Truthy(sources.bulkFile) => file = NoFile
        /\ ~sources.bulkStdin => stdin = <<>>
     \/ /\ sources = [bulk |-> {}, bulkFile |-> {FilePath}, bulkStdin |-> FALSE]
        /\ file = [kind |-> "text", content |-> ScenarioText]
        /\ stdin = <<>>
  /\ CollectIdle
  /\ HelperIdle
  /\ input = <<>>
  /\ parsed = {}
  /\ ids = <<>>
  /\ options = [showProgress |-> TRUE, colorEnabled |-> TRUE, concurrency |-> {}]
  /\ opKinds = AllKinds
  /\ isTerminal = FALSE
  /\ ExecIdle
  /\ HandlerIdle

NextCollect ==
  \/ CollectBulk
  \/ SkipFile
  \/ ReadFile
  \/ ReadFileFails
  \/ SkipStdin
  \/ StartStdin
  \/ ReadChunk
  \/ EndStdin
  \/ ReturnIds

SpecCollect == InitCollect /\ [][NextCollect]_vars

(* ------------------- printBulkSummary and isBulkMode ------------------- *)

\* a headline that asks for succeeded == 0 before failed == 0
HeadlineFailureFirst(sm, colorEnabled) ==
  IF sm.succeeded = 0
  THEN <<[kind |-> "allFailed", count |-> sm.total,
          plural |-> (sm.total # 1), glyph |-> colorEnabled]>>
  ELSE IF sm.failed = 0
  THEN <<[kind |-> "success", count |-> sm.succeeded,
          plural |-> (sm.succeeded # 1), glyph |-> colorEnabled]>>
  ELSE <<[kind |-> "completed", count |-> sm.succeeded, total |-> sm.total,
          plural |-> (sm.total # 1)],
         [kind |-> "succeeded", count |-> sm.succeeded],
         [kind |-> "failed", count |-> sm.failed]>>

\* lines 257-275: the headline
Headline(sm, colorEnabled) ==
  IF sm.failed = 0
  THEN <<[kind |-> "success", count |-> sm.succeeded,
          plural |-> (sm.succeeded # 1), glyph |-> colorEnabled]>>
  ELSE IF sm.succeeded = 0
  THEN <<[kind |-> "allFailed", count |-> sm.total,
          plural |-> (sm.total # 1), glyph |-> colorEnabled]>>
  ELSE <<[kind |-> "completed", count |-> sm.succeeded, total |-> sm.total,
          plural |-> (sm.total # 1)],
         [kind |-> "succeeded", count |-> sm.succeeded],
         [kind |-> "failed", count |-> sm.failed]>>

\* a list that leaves out the test of result.success
RECURSIVE FailureLinesOfAll(_)
FailureLinesOfAll(rs) ==
  IF rs = <<>> THEN <<>>
  ELSE <<[kind |-> "failure", id |-> Head(rs).id, name |-> Head(rs).name,
          error |-> IF Head(rs).error \in {{}, {""}}
                    THEN "Unknown error"
                    ELSE CHOOSE e \in Head(rs).error : TRUE]>>
       \o FailureLinesOfAll(Tail(rs))

\* lines 280-285: one line per failed result; result.error || "Unknown error"
RECURSIVE FailureLines(_)
FailureLines(rs) ==
  IF rs = <<>> THEN <<>>
  ELSE (IF Head(rs).success THEN <<>>
        ELSE <<[kind |-> "failure", id |-> Head(rs).id, name |-> Head(rs).name,
                error |-> IF Head(rs).error \in {{}, {""}}
                          THEN "Unknown error"
                          ELSE CHOOSE e \in Head(rs).error : TRUE]>>)
       \o FailureLines(Tail(rs))

\* a summary that itemizes the failures in the mixed case only
printBulkSummaryMixedDetails(sm, colorEnabled, showDetails) ==
  <<[kind |-> "blank"]>>
  \o Headline(sm, colorEnabled)
  \o (IF showDetails /\ sm.failed > 0 /\ sm.succeeded > 0
      THEN <<[kind |-> "failedHeader"]>> \o FailureLines(sm.results)
      ELSE <<>>)

\* lines 243-287
printBulkSummary(sm, colorEnabled, showDetails) ==
  <<[kind |-> "blank"]>>
  \o Headline(sm, colorEnabled)
  \o (IF showDetails /\ sm.failed > 0
      THEN <<[kind |-> "failedHeader"]>> \o FailureLines(sm.results)
      ELSE <<>>)

\* a test that asks for every source at once
isBulkModeEverySource(src) ==
  (src.bulk # {} /\ Len(Value(src.bulk)) > 0) /\ Truthy(src.bulkFile) /\ src.bulkStdin

\* lines 292-302
isBulkMode(src) ==
  (src.bulk # {} /\ Len(Value(src.bulk)) > 0) \/ Truthy(src.bulkFile) \/ src.bulkStdin

(* --------------------- printBulkSummary on its own --------------------- *)

\* the results a summary given to printBulkSummary holds
PrintResults ==
  { OpSucceeded(id) : id \in IdPool }
  \cup { OpNotFound(id) : id \in IdPool }
  \cup { OpDeleteFailed(<<"A">>) }
  \cup { CaughtResult(<<"A">>, f) : f \in Failures }

\* printBulkSummary(summary, { colorEnabled, showDetails })
PrintSummary ==
  /\ pc = "print"
  /\ console' = console \o printBulkSummary(Value(summary), cli.colorEnabled,
                                             cli.showDetails)
  /\ pc' = "printed"
  /\ UNCHANGED <<execVars, collectVars, parseVars, archiveVars, contentVars, cli, exitCode, rejection>>

\* a summary as executeBulkOperations builds it, over every list of results
InitPrint ==
  /\ pc = "print"
  /\ \E rs \in SeqsUpTo(PrintResults, MaxPrintResults) :
       /\ results = rs
       /\ summary = {Summarize(Len(rs), rs)}
  /\ cli \in [confirm : {FALSE}, colorEnabled : BOOLEAN, showDetails : BOOLEAN]
  /\ console = <<>>
  /\ exitCode = {}
  /\ rejection = {}
  /\ ids = <<>>
  /\ options = [showProgress |-> TRUE, colorEnabled |-> TRUE, concurrency |-> {}]
  /\ opKinds = AllKinds
  /\ isTerminal = FALSE
  /\ i = 0
  /\ batches = <<>>
  /\ b = 0
  /\ launched = 0
  /\ wrapped = <<>>
  /\ completed = 0
  /\ stdout = <<>>
  /\ calls = <<>>
  /\ reordered = FALSE
  /\ earlier = <<>>
  /\ CollectIdle
  /\ HelperIdle
  /\ sources = NoSources
  /\ file = NoFile
  /\ stdin = <<>>
  /\ input = <<>>
  /\ parsed = {}

NextPrint == PrintSummary

SpecPrint == InitPrint /\ [][NextPrint]_vars

(* ---------------- the bulk delete command (issue delete) --------------- *)

\* lines 344-362: the action dispatches on isBulkMode; the single-item path
\* is not followed further
Dispatch ==
  /\ pc = "action"
  /\ pc' = IF isBulkMode(sources) THEN "collect" ELSE "single"
  /\ UNCHANGED <<execVars, collectVars, parseVars, archiveVars, contentVars, handlerVars>>

\* line 458: the await of collectBulkIds throws; nothing catches it, so the
\* handler and the action reject with the same error
CollectRejects ==
  /\ pc = "threw"
  /\ rejection' = thrown
  /\ pc' = "rejected"
  /\ UNCHANGED <<execVars, collectVars, parseVars, archiveVars, contentVars, cli, console, exitCode>>

\* lines 464-467: no ids; Deno.exit(1)
NoIds ==
  /\ pc = "collected"
  /\ Len(Value(collected)) = 0
  /\ console' = Append(console, [kind |-> "noIds"])
  /\ exitCode' = {1}
  /\ pc' = "exited"
  /\ UNCHANGED <<execVars, collectVars, parseVars, archiveVars, contentVars, cli, rejection>>

\* lines 469-472: the count is reported; the prompt is skipped with --confirm
Found ==
  /\ pc = "collected"
  /\ Len(Value(collected)) # 0
  /\ console' = Append(console, [kind |-> "found", count |-> Len(Value(collected))])
  /\ pc' = IF cli.confirm THEN "execute" ELSE "prompt"
  /\ UNCHANGED <<execVars, collectVars, parseVars, archiveVars, contentVars, cli, exitCode, rejection>>

\* lines 473-476, 484: the user confirms
PromptConfirmed ==
  /\ pc = "prompt"
  /\ pc' = "execute"
  /\ UNCHANGED <<execVars, collectVars, parseVars, archiveVars, contentVars, handlerVars>>

\* a refusal that is reported but not followed by a return
PromptDeclinedRunsOn ==
  /\ pc = "prompt"
  /\ console' = Append(console, [kind |-> "cancelled"])
  /\ pc' = "execute"
  /\ UNCHANGED <<execVars, collectVars, parseVars, archiveVars, contentVars, cli, exitCode, rejection>>

\* lines 478-481: the user declines; the handler returns
PromptDeclined ==
  /\ pc = "prompt"
  /\ console' = Append(console, [kind |-> "cancelled"])
  /\ exitCode' = {0}
  /\ pc' = "exited"
  /\ UNCHANGED <<execVars, collectVars, parseVars, archiveVars, contentVars, cli, rejection>>

\* lines 549-552: executeBulkOperations(ids, deleteOperation,
\* { showProgress: true, colorEnabled })
Execute ==
  /\ pc = "execute"
  /\ ids' = Value(collected)
  /\ options' = [showProgress |-> TRUE, colorEnabled |-> cli.colorEnabled,
                 concurrency |-> {}]
  /\ pc' = "call"
  /\ UNCHANGED <<collectVars, parseVars, archiveVars, contentVars, handlerVars, earlier, isTerminal, opKinds, i,
                 batches, b, launched, wrapped, results, completed, stdout,
                 calls, reordered, summary>>

\* a status that reports failure only when nothing succeeded
ExitStatusAllFailed(sm) == IF sm.failed > 0 /\ sm.succeeded = 0 THEN 1 ELSE 0

\* the status the handler ends with after the summary sm
ExitStatus(sm) == IF sm.failed > 0 THEN 1 ELSE 0

\* lines 555-565: the summary is printed; Deno.exit(1) if any item failed
Finish ==
  /\ pc = "returned"
  /\ console' = console \o printBulkSummary(Value(summary), cli.colorEnabled, TRUE)
  /\ exitCode' = {ExitStatus(Value(summary))}
  /\ pc' = "exited"
  /\ UNCHANGED <<execVars, collectVars, parseVars, archiveVars, contentVars, cli, rejection>>

\* what the command is run with
HandlerBulk == { {}, {<< <<"A">> >>}, {<< <<"A">>, <<"B">> >>} }
HandlerFiles ==
  { [kind |-> "text", content |-> <<"B", "\n", "C">>],
    [kind |-> "error", error |-> DenoNotFound],
    [kind |-> "error", error |-> DenoPermissionDenied] }
HandlerStdin == { <<>>, << <<65>> >>, << <<66>>, <<10>> >> }

InitHandler ==
  /\ pc = "action"
  /\ sources \in [bulk : HandlerBulk, bulkFile : {{}, {<<>>}, {FilePath}},
                  bulkStdin : BOOLEAN]
  /\ file \in HandlerFiles
  /\ stdin \in HandlerStdin
  /\ ~Truthy(sources.bulkFile) => file = NoFile
  /\ ~sources.bulkStdin => stdin = <<>>
  /\ cli \in [confirm : BOOLEAN, colorEnabled : {TRUE}]
  /\ console = <<>>
  /\ exitCode = {}
  /\ rejection = {}
  /\ ids = <<>>
  /\ options = [showProgress |-> TRUE, colorEnabled |-> TRUE, concurrency |-> {}]
  /\ opKinds = AllKinds
  /\ isTerminal \in BOOLEAN
  /\ ExecIdle
  /\ CollectIdle
  /\ HelperIdle
  /\ input = <<>>
  /\ parsed = {}

NextHandler ==
  \/ Dispatch
  \/ NextCollect
  \/ CollectRejects
  \/ NoIds
  \/ Found
  \/ PromptConfirmed
  \/ PromptDeclined
  \/ Execute
  \/ NextExec
  \/ Finish

SpecHandler == InitHandler /\ [][NextHandler]_vars

(* ------------- archiveOperation (bulk initiative archive) ------------- *)

\* the identifier the operation is invoked with and the name the server has
\* for the initiative
ArchiveId == <<"A">>
InitiativeName == <<"N">>

\* lines 818-826: an identifier in UUID form is its own resolved id
ResolveUuid ==
  /\ pc = "archive"
  /\ archive.isUuid
  /\ archive' = [archive EXCEPT !.resolvedId = {ArchiveId},
                                !.displayName = ArchiveId]
  /\ pc' = "details"
  /\ UNCHANGED <<execVars, collectVars, parseVars, handlerVars, contentVars>>

\* lines 828-847: the lookup by slug
SlugLookup ==
  /\ pc = "archive"
  /\ ~archive.isUuid
  /\ IF archive.slug = "found"
     THEN /\ archive' = [archive EXCEPT
                           !.requests = Append(@, "slugQuery"),
                           !.resolvedId = {ResolveId(ArchiveId)},
                           !.displayName = ArchiveId]
          /\ pc' = "details"
     ELSE /\ archive' = [archive EXCEPT !.requests = Append(@, "slugQuery")]
          /\ pc' = "name_lookup"
  /\ UNCHANGED <<execVars, collectVars, parseVars, handlerVars, contentVars>>

\* lines 849-870 and 722-730: the lookup by name; if it finds nothing
\* resolveInitiativeId returns undefined and the operation returns
\* "Initiative not found"
NameLookup ==
  /\ pc = "name_lookup"
  /\ IF archive.name = "found"
     THEN /\ archive' = [archive EXCEPT
                           !.requests = Append(@, "nameQuery"),
                           !.resolvedId = {ResolveId(ArchiveId)},
                           !.displayName = ArchiveId]
          /\ pc' = "details"
     ELSE /\ archive' = [archive EXCEPT
                           !.requests = Append(@, "nameQuery"),
                           !.outcome =
                             {[kind |-> "return",
                               result |-> [id |-> ArchiveId, name |-> {ArchiveId},
                                           success |-> FALSE,
                                           error |-> {"Initiative not found"}]]}]
          /\ pc' = "archive_returned"
  /\ UNCHANGED <<execVars, collectVars, parseVars, handlerVars, contentVars>>

\* the name the operation goes on with after the details query
NameAfterDetails ==
  IF archive.details \in {"archived", "active"}
  THEN InitiativeName ELSE archive.displayName

\* a details query whose archivedAt is not looked at
DetailsQueryNoSkip ==
  /\ pc = "details"
  /\ archive' = [archive EXCEPT !.requests = Append(@, "detailsQuery"),
                                !.displayName = NameAfterDetails]
  /\ pc' = "mutation"
  /\ UNCHANGED <<execVars, collectVars, parseVars, handlerVars, contentVars>>

\* lines 732-764: the details query; an initiative reported as archived is
\* returned as a success at once, a failed query is ignored
DetailsQuery ==
  /\ pc = "details"
  /\ IF archive.details = "archived"
     THEN /\ archive' = [archive EXCEPT
                           !.requests = Append(@, "detailsQuery"),
                           !.displayName = NameAfterDetails,
                           !.outcome =
                             {[kind |-> "return",
                               result |-> [id |-> Value(archive.resolvedId),
                                           name |-> {NameAfterDetails},
                                           success |-> TRUE, error |-> {}]]}]
          /\ pc' = "archive_returned"
     ELSE /\ archive' = [archive EXCEPT
                           !.requests = Append(@, "detailsQuery"),
                           !.displayName = NameAfterDetails]
          /\ pc' = "mutation"
  /\ UNCHANGED <<execVars, collectVars, parseVars, handlerVars, contentVars>>

\* lines 766-790: the archive mutation; the request may throw
ArchiveMutation ==
  /\ pc = "mutation"
  /\ archive' = [archive EXCEPT
       !.requests = Append(@, "archiveMutation"),
       !.outcome =
         CASE archive.mutation = "ok" ->
                {[kind |-> "return",
                  result |-> [id |-> Value(archive.resolvedId),
                              name |-> {archive.displayName},
                              success |-> TRUE, error |-> {}]]}
           [] archive.mutation = "refused" ->
                {[kind |-> "return",
                  result |-> [id |-> Value(archive.resolvedId),
                              name |-> {archive.displayName},
                              success |-> FALSE,
                              error |-> {"Archive operation failed"}]]}
           [] archive.mutation = "error" ->
                {[kind |-> "throw",
                  failure |-> [kind |-> "Error", text |-> "not found"]]}]
  /\ pc' = IF archive.mutation = "error" THEN "archive_threw"
           ELSE "archive_returned"
  /\ UNCHANGED <<execVars, collectVars, parseVars, handlerVars, contentVars>>

\* the operation invoked against every server behaviour
InitArchive ==
  /\ pc = "archive"
  /\ archive \in [isUuid : BOOLEAN, slug : {"found", "none", "error"},
                   name : {"found", "none", "error"},
                   details : {"archived", "active", "null", "error"},
                   mutation : {"ok", "refused", "error"},
                   requests : {<<>>}, resolvedId : {{}},
                   displayName : {ArchiveId}, outcome : {{}}]
  /\ helper = [stdinIsTerminal |-> TRUE, streamEnds |-> TRUE, read |-> "idle",
               timer |-> "unset", result |-> {}]
  /\ CollectIdle
  /\ sources = NoSources
  /\ file = NoFile
  /\ stdin = <<>>
  /\ ExecIdle
  /\ HandlerIdle
  /\ ids = <<>>
  /\ options = [showProgress |-> TRUE, colorEnabled |-> TRUE, concurrency |-> {}]
  /\ opKinds = AllKinds
  /\ isTerminal = FALSE
  /\ input = <<>>
  /\ parsed = {}

NextArchive ==
  \/ ResolveUuid
  \/ SlugLookup
  \/ NameLookup
  \/ DetailsQuery
  \/ ArchiveMutation

SpecArchive == InitArchive /\ [][NextArchive]_vars

(* ------------- readContentFromStdin (document create) ----------------- *)

\* lines.join("\n")
RECURSIVE Join(_)
Join(ls) ==
  IF ls = <<>> THEN <<>>
  ELSE IF Len(ls) = 1 THEN Head(ls)
  ELSE Head(ls) \o <<"\n">> \o Join(Tail(ls))

\* content.length > 0 ? content : undefined
ContentOf(ls) == IF Len(Join(ls)) > 0 THEN {Join(ls)} ELSE {}

\* lines 13-15: stdin is a terminal; return undefined
ReturnOnTerminal ==
  /\ pc = "content"
  /\ helper.stdinIsTerminal
  /\ helper' = [helper EXCEPT !.result = {}]
  /\ pc' = "content_returned"
  /\ UNCHANGED <<execVars, collectVars, parseVars, archiveVars, handlerVars>>

\* lines 20-24: the timer is set, readIdsFromStdin is called, and the helper
\* awaits the race of the two
StartRace ==
  /\ pc = "content"
  /\ ~helper.stdinIsTerminal
  /\ helper' = [helper EXCEPT !.timer = "armed", !.read = "reading"]
  /\ chunks' = <<>>
  /\ pc' = "content_race"
  /\ UNCHANGED <<execVars, parseVars, archiveVars, handlerVars, sources, file, stdin,
                 allIds, collected, thrown>>

\* main.ts 91-93: the stream delivers a chunk to the read, whether or not
\* the helper still waits for it
ContentChunk ==
  /\ helper.read = "reading"
  /\ stdin # <<>>
  /\ chunks' = Append(chunks, Head(stdin))
  /\ stdin' = Tail(stdin)
  /\ UNCHANGED <<pc, execVars, parseVars, archiveVars, handlerVars, contentVars, sources,
                 file, allIds, collected, thrown>>

\* main.ts 95-96 and lines 24-27: the stream ends and the read resolves; if
\* the race is still open the helper returns the content
ReadWins ==
  /\ helper.read = "reading"
  /\ stdin = <<>>
  /\ helper.streamEnds
  /\ IF pc = "content_race"
     THEN /\ helper' = [helper EXCEPT
                          !.read = "done",
                          !.result = ContentOf(parseIds(Decode(FlatBytes(chunks))))]
          /\ pc' = "content_returned"
     ELSE /\ helper' = [helper EXCEPT !.read = "done"]
          /\ pc' = pc
  /\ UNCHANGED <<execVars, collectVars, parseVars, archiveVars, handlerVars>>

\* a timer whose firing settles nothing
TimeoutIgnored ==
  /\ helper.timer = "armed"
  /\ helper' = [helper EXCEPT !.timer = "fired"]
  /\ pc' = pc
  /\ UNCHANGED <<execVars, collectVars, parseVars, archiveVars, handlerVars>>

\* lines 20-22, 28-30: the 100 ms timer fires and rejects timeoutPromise; if
\* the race is still open it rejects, and the catch block returns undefined
TimeoutFires ==
  /\ helper.timer = "armed"
  /\ IF pc = "content_race"
     THEN /\ helper' = [helper EXCEPT !.timer = "fired", !.result = {}]
          /\ pc' = "content_returned"
     ELSE /\ helper' = [helper EXCEPT !.timer = "fired"]
          /\ pc' = pc
  /\ UNCHANGED <<execVars, collectVars, parseVars, archiveVars, handlerVars>>

InitContent ==
  /\ pc = "content"
  /\ helper \in [stdinIsTerminal : BOOLEAN, streamEnds : BOOLEAN,
                  read : {"idle"}, timer : {"unset"}, result : {{}}]
  /\ stdin \in Streams(MaxStdinLen)
  /\ helper.stdinIsTerminal => stdin = <<>> /\ ~helper.streamEnds
  /\ archive = ArchiveIdle
  /\ CollectIdle
  /\ sources = NoSources
  /\ file = NoFile
  /\ ExecIdle
  /\ HandlerIdle
  /\ ids = <<>>
  /\ options = [showProgress |-> TRUE, colorEnabled |-> TRUE, concurrency |-> {}]
  /\ opKinds = AllKinds
  /\ isTerminal = FALSE
  /\ input = <<>>
  /\ parsed = {}

NextContent ==
  \/ ReturnOnTerminal
  \/ StartRace
  \/ ContentChunk
  \/ ReadWins
  \/ TimeoutFires

\* the helper's own code runs, and a timer that is set fires; nothing is
\* assumed of the stream
SpecContent ==
  /\ InitContent
  /\ [][NextContent]_vars
  /\ WF_vars(ReturnOnTerminal \/ StartRace)
  /\ WF_vars(TimeoutFires)

(* ------------------- properties of the executor ------------------------ *)

\* the returned summary
Returned == pc = "returned"
TheSummary == CHOOSE v \in summary : TRUE

\* operations launched and not yet settled
InFlight == Cardinality({ p \in 1..Len(calls) : calls[p].phase = "inflight" })

\* invocation p threw or rejected
Threw(p) == calls[p].phase = "settled" /\ calls[p].outcome.kind = "throw"

\* r is the result that belongs to the settled invocation p
OwnResult(p, r) ==
  IF calls[p].outcome.kind = "return"
  THEN r = calls[p].outcome.result
  ELSE r.id = calls[p].id /\ ~r.success

\* C1: at every point the number of operations launched and not yet settled
\* is at most the concurrency option, and at most 5 when it is omitted.
C1_BoundedInFlight ==
  /\ \A n \in options.concurrency : InFlight <= n
  /\ options.concurrency = {} => InFlight <= 5

\* C1 witness: five operations in flight under the default, a sixth id waiting
C1_Witness ==
  options.concurrency = {} /\ InFlight = 5 /\ Len(ids) = 6 /\ pc = "await"

\* C2: when the operation of one id throws, the operation of every other id
\* is still invoked, and each has its own outcome in summary.results.
C2_FailureIsolated ==
  Returned =>
    \A q \in 1..Len(calls) : Threw(q) =>
      /\ Len(calls) = Len(ids)
      /\ Len(TheSummary.results) = Len(ids)
      /\ \A p \in 1..Len(ids) : p # q =>
            /\ calls[p].id = ids[p]
            /\ calls[p].phase = "settled"
            /\ OwnResult(p, TheSummary.results[p])

\* C2 witness: the first operation threw, in the first of several batches,
\* and a later one returned its own success
C2_Witness ==
  /\ Returned
  /\ Len(batches) >= 2
  /\ Len(batches[1]) >= 2
  /\ Threw(1)
  /\ \A p \in 2..Len(calls) : calls[p].outcome.kind = "return"
  /\ TheSummary.results[Len(ids)].success

\* C3: total == ids.length, results.length == total, succeeded is the number
\* of results with success true, failed == total - succeeded.
C3_SummaryCounts ==
  Returned =>
    LET s == TheSummary IN
    /\ s.total = Len(ids)
    /\ Len(s.results) = s.total
    /\ s.succeeded = Cardinality({ p \in 1..Len(s.results) : s.results[p].success })
    /\ s.failed = Cardinality({ p \in 1..Len(s.results) : ~s.results[p].success })
    /\ s.failed = s.total - s.succeeded
    /\ s.succeeded + s.failed = s.total

\* C3 witness: a run in which operations succeeded, returned a failed result
\* and threw
C3_Witness ==
  /\ Returned
  /\ \E p, q, t \in 1..Len(calls) :
       /\ calls[p].outcome.kind = "return" /\ calls[p].outcome.result.success
       /\ calls[q].outcome.kind = "return" /\ ~calls[q].outcome.result.success
       /\ calls[t].outcome.kind = "throw"

\* r carries a non-empty error string
HasError(r) == r.error # {} /\ r.error # {""}

\* C4 as stated: every result in summary.results has exactly one of
\* success == true and a non-empty error string.
C4_SuccessXorError ==
  Returned =>
    \A p \in 1..Len(TheSummary.results) :
      TheSummary.results[p].success # HasError(TheSummary.results[p])

\* C4 as amended: every result has success == true and no error, or
\* success == false and an error string; that string is empty only in a
\* result synthesized from a thrown failure whose text is empty.
C4_SuccessOrErrorString ==
  Returned =>
    \A p \in 1..Len(TheSummary.results) :
      LET r == TheSummary.results[p] IN
      \/ r.success /\ r.error = {}
      \/ /\ ~r.success
         /\ Cardinality(r.error) = 1
         /\ ~HasError(r) => Threw(p) /\ calls[p].outcome.failure.text = ""

\* C4 witness: a summary holding a returned success, a returned failure and
\* a failure synthesized from an Error with an empty message
C4_Witness ==
  /\ Returned
  /\ \E p, q, u \in 1..Len(calls) :
       /\ calls[p].outcome.kind = "return" /\ TheSummary.results[p].success
       /\ calls[q].outcome.kind = "return" /\ ~TheSummary.results[q].success
       /\ Threw(u) /\ TheSummary.results[u].error = {""}

\* C5: summary.results[p] is the outcome of the operation invoked with
\* ids[p], whatever order the operations of a batch settled in.
C5_ResultsInInputOrder ==
  Returned =>
    /\ Len(calls) = Len(ids)
    /\ Len(TheSummary.results) = Len(ids)
    /\ \A p \in 1..Len(ids) :
         calls[p].id = ids[p] /\ OwnResult(p, TheSummary.results[p])

\* C5 witness: a later operation settled before an earlier one of its batch,
\* on distinct ids with different outcomes
C5_Witness ==
  /\ Returned
  /\ reordered
  /\ \E p \in 1..(Len(ids) - 1) :
       /\ ids[p] # ids[p + 1]
       /\ TheSummary.results[p].success
       /\ ~TheSummary.results[p + 1].success
       /\ (p - 1) \div Concurrency(options) = p \div Concurrency(options)

\* the batch (from 0) that position p of ids falls in
BatchOf(p) == (p - 1) \div Concurrency(options)

\* C6: no operation of a later batch is launched before every operation of
\* the earlier batches has settled, and every operation of a batch is
\* launched before any closure of that batch resumes.
C6_BatchBarrier ==
  /\ \A p, q \in 1..Len(calls) :
       BatchOf(p) < BatchOf(q) => calls[p].phase = "settled"
  /\ \A p \in 1..Len(calls) :
       calls[p].phase = "settled" =>
         \A q \in 1..Len(ids) : BatchOf(q) = BatchOf(p) => q <= Len(calls)

\* C6 witness: the second batch is being launched after a first batch of at
\* least two operations that settled out of launch order
C6_Witness ==
  /\ pc = "map"
  /\ b = 2
  /\ launched = 1
  /\ Len(batches[1]) >= 2
  /\ reordered

\* the failure carries a message
CarriesMessage(f) == f.kind = "Error" /\ f.text # ""

\* C7 as stated: the result of a throwing operation has the id it was
\* invoked with, success == false and error equal to the failure's message,
\* or to the stringified failure when the failure carries no message.
C7_MessageElseString ==
  Returned =>
    \A p \in 1..Len(calls) : Threw(p) =>
      LET f == calls[p].outcome.failure IN
      TheSummary.results[p] =
        [id |-> ids[p], name |-> {}, success |-> FALSE,
         error |-> {IF CarriesMessage(f) THEN f.text ELSE StringOf(f)}]

\* C7 as amended: error is the failure's message when the failure is an
\* Error (an empty message included), and the stringified failure otherwise.
C7_ErrorMessageElseString ==
  Returned =>
    \A p \in 1..Len(calls) : Threw(p) =>
      LET f == calls[p].outcome.failure
          r == TheSummary.results[p] IN
      /\ r.id = ids[p]
      /\ ~r.success
      /\ f.kind = "Error" => r.error = {f.text}
      /\ f.kind # "Error" => r.error = {StringOf(f)}

\* C7 witness: operations threw an Error with a message, an Error with an
\* empty message, and a string
C7_Witness ==
  /\ Returned
  /\ \E p, q, t \in 1..Len(calls) :
       /\ Threw(p) /\ CarriesMessage(calls[p].outcome.failure)
       /\ Threw(q) /\ calls[q].outcome.failure = [kind |-> "Error", text |-> ""]
       /\ Threw(t) /\ calls[t].outcome.failure.kind = "string"

(* ------------------ properties of the collector ------------------------ *)

\* the separator characters the claims name
Separators == {"\n", "\r", ",", " ", "\t"}

\* the positions where a maximal run of non-separators of s starts
RunStarts(s) ==
  { k \in 1..Len(s) :
      s[k] \notin Separators /\ (k = 1 \/ s[k - 1] \in Separators) }

\* the maximal run of non-separators of s that starts at k
RunAt(s, k) ==
  LET e == CHOOSE j \in k..Len(s) :
             /\ \A m \in k..j : s[m] \notin Separators
             /\ j = Len(s) \/ s[j + 1] \in Separators
  IN SubSeq(s, k, e)

\* the maximal runs of s that start in the set of positions K, in order
RECURSIVE RunsFrom(_, _)
RunsFrom(s, K) ==
  IF K = {} THEN <<>>
  ELSE LET k == CHOOSE m \in K : \A n \in K : m <= n
       IN <<RunAt(s, k)>> \o RunsFrom(s, K \ {k})

MaximalRuns(s) == RunsFrom(s, RunStarts(s))

\* the bytes of the chunks cs, concatenated
RECURSIVE Concat(_)
Concat(cs) == IF cs = <<>> THEN <<>> ELSE Head(cs) \o Concat(Tail(cs))

\* the tokens present across the supplied sources
SuppliedTokens ==
  (IF sources.bulk # {} THEN Range(Value(sources.bulk)) ELSE {})
  \cup (IF Truthy(sources.bulkFile) /\ file.kind = "text"
        THEN Range(MaximalRuns(file.content)) ELSE {})
  \cup (IF sources.bulkStdin
        THEN Range(MaximalRuns(Decode(Concat(chunks)))) ELSE {})

NoDuplicates(s) == \A p, q \in 1..Len(s) : p # q => s[p] # s[q]

\* C8: collectBulkIds returns a list without duplicates that holds exactly
\* the distinct non-empty tokens present across the inline list, the file
\* and stdin.
C8_ExactDistinctTokens ==
  pc = "collected" =>
    /\ NoDuplicates(Value(collected))
    /\ Range(Value(collected)) = SuppliedTokens \ {<<>>}

\* C9: the tokens of a text are exactly its maximal runs of non-separator
\* characters, in order: none is empty, none holds a separator, and
\* "X-1\nX-2, X-3\n\nX-1" gives X-1, X-2, X-3 (and X-1 again).
C9_TokensAreMaximalRuns ==
  pc = "parsed" =>
    LET t == Value(parsed) IN
    /\ t = MaximalRuns(input)
    /\ \A k \in 1..Len(t) :
         t[k] # <<>> /\ \A m \in 1..Len(t[k]) : t[k][m] \notin Separators
    /\ input = ScenarioText =>
         Range(t) = { <<"X", "-", "1">>, <<"X", "-", "2">>, <<"X", "-", "3">> }

\* C9 witness: the scenario text has been parsed
C9_Witness ==
  pc = "parsed" /\ input = ScenarioText /\ Len(Value(parsed)) = 4

\* sub occurs in s
Contains(s, sub) ==
  \E k \in 0..(Len(s) - Len(sub)) : SubSeq(s, k + 1, k + Len(sub)) = sub

\* the read of the supplied bulk file fails
FileReadFails == Truthy(sources.bulkFile) /\ file.kind = "error"

\* C10: when the bulk file does not exist, collection fails with an error
\* whose message contains the supplied path; any other read failure is
\* propagated unchanged; the failure reaches the caller of the handler and no
\* per-item operation is invoked before or after it.
C10_MissingFileAborts ==
  /\ FileReadFails =>
       pc \in {"action", "collect", "collect_file", "threw", "rejected"}
  /\ pc \in {"threw", "rejected"} =>
       /\ FileReadFails
       /\ Cardinality(thrown) = 1
       /\ calls = <<>>
       /\ exitCode = {}
       /\ IF file.error.name = "NotFound"
          THEN /\ Value(thrown).name = "Error"
               /\ Contains(Value(thrown).message, Value(sources.bulkFile))
          ELSE Value(thrown) = file.error
  /\ pc = "rejected" => rejection = thrown

\* C10 witness: the handler rejected on a missing file although ids had been
\* given inline and on stdin
C10_Witness ==
  /\ pc = "rejected"
  /\ file.error = DenoNotFound
  /\ allIds # <<>>
  /\ sources.bulkStdin

\* no supplied source holds a token: the inline list has no entry, the file
\* (if read) and stdin (if read) hold separators only
NoTokensSupplied ==
  /\ ~FileReadFails
  /\ SuppliedTokens \ {<<>>} = {}

\* C11: when no source is supplied, or every supplied source yields zero
\* tokens, collectBulkIds returns an empty list and raises no error.
C11_EmptyWhenNoTokens ==
  /\ pc = "collected" /\ NoTokensSupplied => Value(collected) = <<>>
  /\ pc = "threw" => FileReadFails

(* -------------------- properties of the progress line ------------------ *)

\* the invocations that have settled, and those that settled with success
SettledCalls == { p \in 1..Len(calls) : calls[p].phase = "settled" }
SucceededCalls ==
  { p \in SettledCalls :
      calls[p].outcome.kind = "return" /\ calls[p].outcome.result.success }

\* the last thing written to standard output
LastWritten == stdout[Len(stdout)]

\* C12: each status line written after an item settles carries the running
\* totals at that moment: completed is the number of items settled so far,
\* succeeded the number of those whose outcome is success, failed the number
\* of those whose outcome is failure. (Nothing settles between the write of
\* the last status line and the present state.)
C12_RunningTotals ==
  stdout # <<>> /\ LastWritten.kind = "status" =>
    /\ LastWritten.total = Len(ids)
    /\ LastWritten.completed = Cardinality(SettledCalls)
    /\ LastWritten.succeeded = Cardinality(SucceededCalls)
    /\ LastWritten.failed = Cardinality(SettledCalls \ SucceededCalls)

\* C13: when standard output is not an interactive terminal,
\* executeBulkOperations writes nothing to standard output (no status line,
\* no clearing sequence) whatever showProgress is; the same holds when
\* showProgress is false.
C13_SilentOffTerminal ==
  ~isTerminal \/ ~options.showProgress => stdout = <<>>

\* C13 witness: a run of two batches has returned with showProgress true and
\* standard output not a terminal
C13_Witness ==
  /\ Returned
  /\ ~isTerminal
  /\ options.showProgress
  /\ Len(batches) = 2
  /\ completed = Len(ids)
  /\ stdout = <<>>

\* the summary of a run over no ids
EmptySummary == [total |-> 0, succeeded |-> 0, failed |-> 0, results |-> <<>>]

\* C14 as stated: executeBulkOperations called with zero ids returns
\* {total: 0, succeeded: 0, failed: 0, results: []}, never invokes the
\* operation, and produces no progress output.
C14_ZeroIdsNoOutput ==
  ids = <<>> =>
    /\ calls = <<>>
    /\ stdout = <<>>
    /\ Returned => summary = {EmptySummary}

\* C14 as amended: with zero ids the summary is all zero, the operation is
\* never invoked and no status line is written; the clearing sequence is
\* still written, once, when showProgress is true and standard output is a
\* terminal.
C14_ZeroIdsNoStatusLine ==
  ids = <<>> =>
    /\ calls = <<>>
    /\ \A k \in 1..Len(stdout) : stdout[k].kind # "status"
    /\ Returned =>
         /\ summary = {EmptySummary}
         /\ stdout = IF options.showProgress /\ isTerminal
                     THEN <<[kind |-> "clear"]>> ELSE <<>>

\* C14 witness: a run over zero ids has returned on a terminal
C14_Witness ==
  /\ Returned
  /\ ids = <<>>
  /\ isTerminal
  /\ options.showProgress
  /\ batches = <<>>
  /\ stdout = <<[kind |-> "clear"]>>

(* ------------------- properties of a run as a whole -------------------- *)

\* C15: within one call the operation is invoked exactly once for each
\* position of ids, whether it succeeds, returns a failed result or throws:
\* calls, the log of every invocation, follows ids position by position and
\* a failed item is never invoked again.
C15_InvokedOncePerPosition ==
  /\ Len(calls) <= Len(ids)
  /\ \A p \in 1..Len(calls) : calls[p].id = ids[p]
  /\ Returned => Len(calls) = Len(ids)

\* C15 witness: a returned run over a repeated id in which one operation
\* threw, one returned a failed result and one succeeded
C15_Witness ==
  /\ Returned
  /\ Len(ids) = 3
  /\ ids[1] = ids[2]
  /\ Threw(1)
  /\ calls[2].outcome.kind = "return" /\ ~calls[2].outcome.result.success
  /\ calls[3].outcome.kind = "return" /\ calls[3].outcome.result.success
  /\ Len(calls) = 3

\* every operation invoked so far has settled, and every position of ids has
\* been invoked
AllSettled ==
  /\ Len(calls) = Len(ids)
  /\ \A p \in 1..Len(calls) : calls[p].phase = "settled"

\* C16: for every concurrency >= 1, if every invoked operation eventually
\* settles, executeBulkOperations eventually returns a summary, and it
\* returns only after every operation of every batch has settled.
C16_RunsToCompletion ==
  /\ <>Returned
  /\ [](summary # {} => AllSettled)

\* C16 witness: a run of three batches has returned
C16_Witness ==
  /\ Returned
  /\ Len(batches) = 3
  /\ Len(ids) = 3
  /\ AllSettled

\* C17: two independent calls with the same ids and an operation that gives
\* the same outcome per id return summaries with the same total, succeeded
\* and failed: the completed counter and the results accumulator of one call
\* never carry over into another call.
C17_SameCountsOnRerun ==
  /\ Returned =>
       \A k \in 1..Len(earlier) :
         LET first == CHOOSE v \in earlier[k].summary : TRUE IN
         /\ TheSummary.total = first.total
         /\ TheSummary.succeeded = first.succeeded
         /\ TheSummary.failed = first.failed
         /\ Len(TheSummary.results) = Len(first.results)
  /\ pc = "partition" => results = <<>> /\ completed = 0
  /\ completed <= Len(ids)

\* C17 witness: a second call has returned after a first one that had both
\* successes and failures
C17_Witness ==
  /\ Returned
  /\ Len(earlier) = 1
  /\ TheSummary.succeeded > 0
  /\ TheSummary.failed > 0
  /\ TheSummary.total = 3

(* ------------------ properties of the printed summary ------------------ *)

\* the printed lines of the kinds in K, in the order printed
LinesOf(K) == SelectSeq(console, LAMBDA l : l.kind \in K)

\* the first line of each of the three forms
FormLines == LinesOf({"success", "allFailed", "completed"})

\* every line of the headline
HeadlineLines ==
  LinesOf({"success", "allFailed", "completed", "succeeded", "failed"})

\* C18: failed == 0 gives a single success line that pluralizes entityName
\* by the succeeded count; otherwise succeeded == 0 with total > 0 gives a
\* single total-failure line; otherwise (mixed) gives a counts line followed
\* by the succeeded and failed sub-lines. Exactly one of the three forms is
\* printed for every summary.
C18_HeadlineDecisionTable ==
  pc = "printed" =>
    LET sm == Value(summary) IN
    /\ Len(FormLines) = 1
    /\ SubSeq(console, 2, 1 + Len(HeadlineLines)) = HeadlineLines
    /\ IF sm.failed = 0
       THEN /\ Len(HeadlineLines) = 1
            /\ HeadlineLines[1].kind = "success"
            /\ HeadlineLines[1].count = sm.succeeded
            /\ HeadlineLines[1].plural = (sm.succeeded # 1)
       ELSE IF sm.succeeded = 0 /\ sm.total > 0
       THEN /\ Len(HeadlineLines) = 1
            /\ HeadlineLines[1].kind = "allFailed"
            /\ HeadlineLines[1].count = sm.total
       ELSE /\ Len(HeadlineLines) = 3
            /\ HeadlineLines[1].kind = "completed"
            /\ HeadlineLines[1].count = sm.succeeded
            /\ HeadlineLines[1].total = sm.total
            /\ HeadlineLines[2] = [kind |-> "succeeded", count |-> sm.succeeded]
            /\ HeadlineLines[3] = [kind |-> "failed", count |-> sm.failed]

\* C18 witness: a mixed summary of three results, one of them a success,
\* has been printed
C18_Witness ==
  /\ pc = "printed"
  /\ Value(summary).total = 3
  /\ Value(summary).succeeded = 1
  /\ Len(HeadlineLines) = 3

\* the failed results of rs, in order
FailedOf(rs) == SelectSeq(rs, LAMBDA r : ~r.success)

\* the per-item lines printed
ItemLines == LinesOf({"failure"})

\* the per-item lines come last, under their header
ItemLinesLast ==
  /\ Len(LinesOf({"failedHeader"})) = 1
  /\ console[Len(console) - Len(ItemLines)].kind = "failedHeader"
  /\ SubSeq(console, Len(console) - Len(ItemLines) + 1, Len(console)) = ItemLines

\* C19 as stated: when at least one item failed and detail display is
\* requested, every failed result is listed exactly once, in results order,
\* with its id, its name when present, and its error message; when no item
\* failed or showDetails is false, no per-item line is printed.
C19_FailuresItemized ==
  pc = "printed" =>
    LET sm == Value(summary)
        failures == FailedOf(sm.results) IN
    IF sm.failed > 0 /\ cli.showDetails
    THEN /\ Len(ItemLines) = Len(failures)
         /\ ItemLinesLast
         /\ \A k \in 1..Len(failures) :
              /\ ItemLines[k].id = failures[k].id
              /\ ItemLines[k].name = failures[k].name
              /\ {ItemLines[k].error} = failures[k].error
    ELSE ItemLines = <<>> /\ LinesOf({"failedHeader"}) = <<>>

\* C19 as amended: as stated, except that a failed result whose error is
\* empty or missing is listed with the text "Unknown error".
C19_FailuresItemizedOrUnknown ==
  pc = "printed" =>
    LET sm == Value(summary)
        failures == FailedOf(sm.results) IN
    IF sm.failed > 0 /\ cli.showDetails
    THEN /\ Len(ItemLines) = Len(failures)
         /\ ItemLinesLast
         /\ \A k \in 1..Len(failures) :
              /\ ItemLines[k].id = failures[k].id
              /\ ItemLines[k].name = failures[k].name
              /\ IF HasError(failures[k])
                 THEN {ItemLines[k].error} = failures[k].error
                 ELSE ItemLines[k].error = "Unknown error"
    ELSE ItemLines = <<>> /\ LinesOf({"failedHeader"}) = <<>>

\* C19 witness: a summary of a success, a named failure and a failure with
\* an empty error has been printed with its details
C19_Witness ==
  /\ pc = "printed"
  /\ cli.showDetails
  /\ Len(Value(summary).results) = 3
  /\ Value(summary).results[1].success
  /\ Value(summary).results[2] = OpDeleteFailed(<<"A">>)
  /\ Value(summary).results[3].error = {""}
  /\ Len(ItemLines) = 2

(* -------------------- properties of the exit status -------------------- *)

\* executeBulkOperations is running or has just returned
Executing ==
  pc \in {"call", "partition", "loop", "map", "await", "return", "returned"}

\* C20: in a bulk command handler, once executeBulkOperations has returned
\* and the summary is printed, the process exits with a non-zero status if
\* and only if summary.failed > 0; it does not exit while the executor runs.
C20_ExitStatusFollowsFailed ==
  /\ Executing => exitCode = {}
  /\ pc = "exited" /\ summary # {} =>
       /\ Len(FormLines) = 1
       /\ Cardinality(exitCode) = 1
       /\ Value(exitCode) # 0 <=> Value(summary).failed > 0

\* C20 witness: the command exited with status 1 after a run in which one
\* item succeeded and one failed
C20_Witness ==
  /\ pc = "exited"
  /\ summary # {}
  /\ Value(summary).succeeded > 0
  /\ Value(summary).failed > 0
  /\ exitCode = {1}

(* ---------------------- properties of the dispatch --------------------- *)

\* the identifier-source flags present on the command line
FlagsPresent ==
  (IF sources.bulk # {} THEN {"bulk"} ELSE {})
  \cup (IF sources.bulkFile # {} THEN {"bulkFile"} ELSE {})
  \cup (IF sources.bulkStdin THEN {"bulkStdin"} ELSE {})

\* the flags that name a source: --bulk with an id, --bulk-file with a
\* non-empty path, --bulk-stdin
SourcesNamed ==
  (IF sources.bulk # {} /\ Value(sources.bulk) # <<>> THEN {"bulk"} ELSE {})
  \cup (IF sources.bulkFile # {} /\ Value(sources.bulkFile) # <<>>
        THEN {"bulkFile"} ELSE {})
  \cup (IF sources.bulkStdin THEN {"bulkStdin"} ELSE {})

\* the action has taken the bulk path
BulkPath == pc \notin {"action", "single"}

\* C21 as stated: a command enters bulk mode exactly when more than one
\* identifier-source flag among --bulk, --bulk-file and --bulk-stdin is
\* present.
C21_BulkModeOnSeveralFlags ==
  pc # "action" => (BulkPath <=> Cardinality(FlagsPresent) > 1)

\* C21 as amended: a command enters bulk mode exactly when at least one of
\* the flags names a source: --bulk with at least one id, --bulk-file with a
\* non-empty path, or --bulk-stdin.
C21_BulkModeOnAnySource ==
  pc # "action" => (BulkPath <=> Cardinality(SourcesNamed) >= 1)

\* C21 witness: the bulk handler collects for a command given --bulk-stdin
\* alone
C21_Witness ==
  /\ pc = "collect"
  /\ FlagsPresent = {"bulkStdin"}

(* ----------------------- properties of the stdin read ------------------ *)

\* what the inline list and the file have put in allIds before stdin is read
IdsBeforeStdin ==
  (IF Truthy(sources.bulk) THEN Value(sources.bulk) ELSE <<>>)
  \o (IF Truthy(sources.bulkFile) /\ file.kind = "text"
      THEN MaximalRuns(file.content) ELSE <<>>)

\* C22: readIdsFromStdin consumes standard input to end of stream before
\* tokenizing, and the tokens it returns are exactly the tokens of the text
\* decoded from the concatenation, in arrival order, of the bytes of all
\* chunks read, however the stream is split into chunks.
C22_StdinTokensOfWholeStream ==
  /\ pc = "read_stdin" => allIds = IdsBeforeStdin
  /\ pc = "dedupe" /\ sources.bulkStdin =>
       /\ stdin = <<>>
       /\ allIds = IdsBeforeStdin \o MaximalRuns(Decode(Concat(chunks)))

(* --------------------- properties of the partition --------------------- *)

\* the partition loop has finished
Partitioned == pc \in {"loop", "map", "await", "return", "returned"}

\* C23: the ids are partitioned into consecutive batches in input order:
\* every batch except possibly the last has exactly concurrency items, the
\* last has between 1 and concurrency items, and concatenating the batches
\* in order gives back ids.
C23_ConsecutiveBatches ==
  Partitioned =>
    /\ Concat(batches) = ids
    /\ \A k \in 1..(Len(batches) - 1) :
         Len(batches[k]) = Concurrency(options)
    /\ batches # <<>> =>
         /\ Len(batches[Len(batches)]) >= 1
         /\ Len(batches[Len(batches)]) <= Concurrency(options)
    /\ \A p \in 1..Len(ids) :
         ids[p] = batches[BatchOf(p) + 1][p - BatchOf(p) * Concurrency(options)]

\* C23 witness: three ids split under concurrency 2 into a full batch and a
\* last batch of one
C23_Witness ==
  /\ pc = "loop"
  /\ b = 0
  /\ options.concurrency = {2}
  /\ Len(ids) = 3
  /\ Len(batches) = 2
  /\ Len(batches[2]) = 1

(* --------------------- properties of the counter ----------------------- *)

\* the status lines written so far, in order
StatusLines == SelectSeq(stdout, LAMBDA l : l.kind = "status")

\* C24: the completed counter is incremented exactly once per item, when
\* that item settles (success or failure), and the progress reporter is
\* invoked once right after each increment: the completed values reported
\* are 1, 2, ..., total in strictly increasing order, and completed never
\* exceeds total.
C24_CountedOncePerItem ==
  /\ completed = Cardinality(SettledCalls)
  /\ completed <= Len(ids)
  /\ Returned => completed = Len(ids)
  /\ options.showProgress /\ isTerminal =>
       /\ Len(StatusLines) = completed
       /\ \A k \in 1..Len(StatusLines) :
            StatusLines[k].completed = k /\ StatusLines[k].total = Len(ids)

\* C24 witness: a run of three items, one of which threw and two of which
\* settled out of launch order, has returned on a terminal
C24_Witness ==
  /\ Returned
  /\ isTerminal
  /\ options.showProgress
  /\ Len(ids) = 3
  /\ reordered
  /\ \E p \in 1..Len(calls) : Threw(p)
  /\ Len(StatusLines) = 3
  /\ LastWritten.kind = "clear"

\* every item of the printed summary failed
AllFailed == Value(summary).succeeded = 0 /\ Value(summary).total > 0

\* the lines printed after the leading blank line
PrintedLines == SelectSeq(console, LAMBDA l : l.kind # "blank")

\* C25 as stated: when every item failed (succeeded == 0 and total > 0) the
\* output of printBulkSummary is the one-line total-failure message only;
\* the per-item failure list is printed only in the mixed case.
C25_AllFailedOneLineOnly ==
  pc = "printed" =>
    /\ AllFailed =>
         Len(PrintedLines) = 1 /\ PrintedLines[1].kind = "allFailed"
    /\ ItemLines # <<>> =>
         Value(summary).succeeded > 0 /\ Value(summary).failed > 0

\* C25 as amended: when every item failed the headline is the one-line
\* total-failure message, with no counts line and no sub-lines; the per-item
\* failure list follows it when showDetails is true, as it does in the mixed
\* case, and nothing follows it when showDetails is false.
C25_AllFailedOneLineHeadline ==
  pc = "printed" =>
    /\ AllFailed =>
         /\ Len(HeadlineLines) = 1
         /\ PrintedLines[1].kind = "allFailed"
         /\ IF cli.showDetails
            THEN /\ Len(PrintedLines) = 2 + Value(summary).total
                 /\ PrintedLines[2].kind = "failedHeader"
                 /\ Len(ItemLines) = Value(summary).total
            ELSE Len(PrintedLines) = 1
    /\ ItemLines # <<>> => Value(summary).failed > 0 /\ cli.showDetails

\* C25 witness: a summary of two failures has been printed with its details
C25_Witness ==
  /\ pc = "printed"
  /\ AllFailed
  /\ Value(summary).total = 2
  /\ cli.showDetails
  /\ Len(ItemLines) = 2

(* ------------------- properties of the confirmation -------------------- *)

\* the user has declined the prompt
Declined == LinesOf({"cancelled"}) # <<>>

\* C26: when the skip-confirmation flag is not set and the user declines
\* the prompt, executeBulkOperations is never called and no per-item
\* operation is issued; when the flag is set, no prompt is shown and the run
\* starts directly. No operation is issued before the prompt is answered.
C26_DeclineStopsTheRun ==
  /\ pc = "prompt" => ~cli.confirm /\ calls = <<>> /\ ExecIdle
  /\ cli.confirm => ~Declined
  /\ Declined =>
       /\ pc = "exited"
       /\ ids = <<>>
       /\ ExecIdle
  /\ calls # <<>> => ~Declined /\ Len(LinesOf({"found"})) = 1

\* C26 witness: the user declined the deletion of three collected ids
C26_Witness ==
  /\ Declined
  /\ pc = "exited"
  /\ ~cli.confirm
  /\ Len(Value(collected)) = 3

(* ------------------ properties of the content helper ------------------- *)

\* the helper has returned
ContentReturned == pc = "content_returned"

\* C27: the helper races the stdin read against a fixed timeout: whenever
\* stdin is not a terminal and the read has not finished when the timeout
\* fires, the helper returns undefined instead of waiting, so it always
\* returns even if stdin never reaches end of stream; when stdin is a
\* terminal it returns undefined without reading.
C27_AlwaysReturns ==
  /\ <>ContentReturned
  /\ [](helper.timer = "fired" /\ helper.read = "reading" =>
          ContentReturned /\ helper.result = {})
  /\ [](helper.stdinIsTerminal /\ ContentReturned =>
          /\ helper.result = {}
          /\ helper.read = "idle"
          /\ helper.timer = "unset"
          /\ chunks = <<>>)
  /\ [](helper.result # {} => helper.read = "done" /\ stdin = <<>>)

\* C27 witness: the helper has returned undefined on the timeout while a
\* stream that never ends still had a chunk to deliver
C27_Witness ==
  /\ ContentReturned
  /\ ~helper.stdinIsTerminal
  /\ ~helper.streamEnds
  /\ helper.timer = "fired"
  /\ helper.read = "reading"
  /\ chunks # <<>>
  /\ stdin # <<>>
  /\ helper.result = {}

(* ------------------ properties of the settlement order ----------------- *)

\* the result position p of ids must have, given the outcome of its operation
ResultOfOutcome(p) ==
  IF calls[p].outcome.kind = "return"
  THEN calls[p].outcome.result
  ELSE [id |-> ids[p], name |-> {}, success |-> FALSE,
        error |-> {IF calls[p].outcome.failure.kind = "Error"
                   THEN calls[p].outcome.failure.text
                   ELSE StringOf(calls[p].outcome.failure)}]

\* C28: for fixed ids and a fixed outcome per id, every interleaving of the
\* settlement order inside each batch yields the same returned summary (same
\* total, succeeded, failed and results sequence): the summary is the one
\* the outcomes determine position by position, and a call that settled in
\* another order returned the same summary.
C28_SummaryIgnoresOrder ==
  Returned =>
    /\ TheSummary.total = Len(ids)
    /\ \A p \in 1..Len(ids) : calls[p].phase = "settled"
    /\ TheSummary.results = [p \in 1..Len(ids) |-> ResultOfOutcome(p)]
    /\ TheSummary.succeeded =
         Cardinality({ p \in 1..Len(ids) : ResultOfOutcome(p).success })
    /\ TheSummary.failed = Len(ids) - TheSummary.succeeded
    /\ \A k \in 1..Len(earlier) : earlier[k].summary = summary

\* C28 witness: a second call has returned after settling out of launch
\* order, the first having settled in launch order, on ids whose outcomes
\* differ
C28_Witness ==
  /\ Returned
  /\ Len(earlier) = 1
  /\ reordered
  /\ ~earlier[1].reordered
  /\ TheSummary.succeeded > 0
  /\ TheSummary.failed > 0
  /\ \E p \in 1..(Len(ids) - 1) :
       /\ BatchOf(p) = BatchOf(p + 1)
       /\ TheSummary.results[p].success # TheSummary.results[p + 1].success

(* ------------- properties of a concurrency below 1 --------------------- *)

\* C29: with a non-empty ids list and a concurrency option of 0 or a
\* negative integer, the partition loop never finishes: its condition holds
\* at every iteration, so no step after the loop is ever enabled, no
\* operation is ever invoked and no summary is ever returned.
C29_PartitionNeverEnds ==
  ids # <<>> /\ Concurrency(options) < 1 =>
    /\ pc \in {"call", "partition"}
    /\ pc = "partition" => i <= 0 /\ i < Len(ids)
    /\ ~ENABLED PartitionDone
    /\ ~ENABLED (NextBatch \/ Launch \/ SettleResolved \/ SettleRejected \/ Return)
    /\ calls = <<>>
    /\ summary = {}

\* C29 witness: under concurrency -1 the loop has pushed a first batch with
\* all ids but the last and empty batches after it, and i has gone negative
C29_Witness ==
  /\ pc = "partition"
  /\ options.concurrency = {-1}
  /\ Len(ids) = 3
  /\ Len(batches) = 4
  /\ i = -4
  /\ batches[1] = SubSeq(ids, 1, 2)
  /\ batches[4] = <<>>


(* ------------- C30 ----------------------------------------------------- *)

\* the requests archiveOperation has issued so far
Issued == {archive.requests[k] : k \in DOMAIN archive.requests}

\* the details query was answered and reported the initiative as archived
ReportedArchived ==
  "detailsQuery" \in Issued /\ archive.details = "archived"

\* resolveInitiativeId has returned undefined
Unresolved ==
  /\ pc \in {"archive_returned", "archive_threw"}
  /\ archive.resolvedId = {}

\* C30: in bulk initiative archive an initiative whose details report it as
\* already archived yields a result with success true and no archive mutation
\* is issued for it; an identifier that cannot be resolved yields success
\* false with the error "Initiative not found" and neither a details query
\* nor a mutation is issued for it.
C30_ArchivedSkippedUnresolvedNotFound ==
  /\ ReportedArchived =>
       /\ pc = "archive_returned"
       /\ \A o \in archive.outcome : o.kind = "return" /\ o.result.success
       /\ archive.outcome # {}
       /\ "archiveMutation" \notin Issued
  /\ Unresolved =>
       /\ archive.outcome =
            {[kind |-> "return",
              result |-> [id |-> ArchiveId, name |-> {ArchiveId},
                          success |-> FALSE,
                          error |-> {"Initiative not found"}]]}
       /\ "detailsQuery" \notin Issued
       /\ "archiveMutation" \notin Issued
  /\ (~archive.isUuid /\ archive.slug # "found" /\ archive.name # "found"
        /\ pc \in {"archive_returned", "archive_threw"}) => Unresolved

\* an initiative found by its name and reported as archived has been returned
\* as a success after the two lookups and the details query
C30_Witness ==
  /\ pc = "archive_returned"
  /\ archive.requests = <<"slugQuery", "nameQuery", "detailsQuery">>
  /\ ReportedArchived
  /\ \E o \in archive.outcome : o.kind = "return" /\ o.result.success

\* an identifier neither lookup finds has been returned as not found
C30_WitnessUnresolved ==
  /\ Unresolved
  /\ archive.requests = <<"slugQuery", "nameQuery">>

====
